---- MODULE Spec2Model ----
(***************************************************************************)
(* davisinteractive: the evaluation session (evaluation/service.py) and    *)
(* the scribble utilities (utils/scribbles.py).                            *)
(*                                                                         *)
(* Spec          the EvaluationService state machine: start,               *)
(*               get_starting_scribble, submit_masks, get_report, close.   *)
(* SpecScribbles fuse_scribbles and is_empty acting on scribble            *)
(*               dictionaries that live in a heap of Python objects.       *)
(*                                                                         *)
(* A Python optional is a sequence of length 0 (None) or 1 (a value).      *)
(***************************************************************************)
EXTENDS Integers, Sequences, FiniteSets, TLC

VARIABLES
    davis,                  \* the dataset collaborator (self.davis): fixed per run
    session_started,        \* self.session_started
    sequences,              \* self.sequences
    sequences_scribble_idx, \* self.sequences_scribble_idx
    report,                 \* self.report
    last,                   \* the last call: operation, arguments, outcome, result
    okKey,                  \* history: (sequence, scribble_idx, interaction) of one
                            \* submit_masks call, any, that returned since the
                            \* last start
    okRows,                 \* history: the rows of those calls, in call order
    robotRaised,            \* history: a submit_masks call since the last start
                            \* raised from the robot collaborator
    heap,                   \* Python objects of the scribble utilities, by address
    scrLast                 \* the last scribble-utility call

vars == <<davis, session_started, sequences, sequences_scribble_idx, report,
          last, okKey, okRows, robotRaised, heap, scrLast>>

sessionVars == <<davis, session_started, sequences, sequences_scribble_idx,
                 report, last, okKey, okRows, robotRaised>>

scribbleVars == <<heap, scrLast>>

----------------------------------------------------------------------------
(* Python values *)

None == <<>>

Some(x) == <<x>>

IsNone(o) == Len(o) = 0

Val(o) == o[1]

Range(s) == {s[n] : n \in 1..Len(s)}

----------------------------------------------------------------------------
(* Bounds of the model *)

MaxInteraction == 2

MaxRows == 2

----------------------------------------------------------------------------
(* The dataset collaborator: Davis.sets, Davis.dataset['sequences'] and    *)
(* the shape (frames, objects) of each sequence's ground truth, which is   *)
(* the shape of the score table batched_jaccard returns for it.  The two   *)
(* datasets differ in the subsets they list, in the scribble counts and in *)
(* the shapes: DavisPlus lists a subset beyond train, val and test-dev and *)
(* holds a sequence without objects, whose score table is empty.           *)

DavisVal ==
    [sets |-> [x \in {"train", "val"} |->
                  IF x = "train" THEN <<"C">> ELSE <<"A", "B">>],
     num_scribbles |-> [s \in {"A", "B", "C"} |->
                  IF s = "A" THEN 2 ELSE 1],
     nb_frames |-> [s \in {"A", "B", "C"} |-> IF s = "A" THEN 2 ELSE 1],
     nb_objects |-> [s \in {"A", "B", "C"} |-> 1]]

DavisPlus ==
    [sets |-> [x \in {"val", "trainval"} |->
                  IF x = "val" THEN <<"B", "A">> ELSE <<"C", "B", "A">>],
     num_scribbles |-> [s \in {"A", "B", "C"} |->
                  IF s = "A" THEN 1 ELSE IF s = "B" THEN 0 ELSE 2],
     nb_frames |-> [s \in {"A", "B", "C"} |-> 1],
     nb_objects |-> [s \in {"A", "B", "C"} |-> IF s = "A" THEN 0 ELSE 1]]

Datasets == {DavisVal, DavisPlus}

\* The inputs the calls are tried with.
SubsetNames == {"train", "val", "test-dev", "trainval", "all"}

SequenceNames == {"A", "B", "C"}

\* the (sequence, scribble_idx) pairs masks are submitted for
SubmittedScribbles == {<<"A", 1>>, <<"C", 1>>, <<"C", 2>>}

ScribbleIdxs == {1, 2}

Interactions == 0..MaxInteraction

Timmings == {12}

PredMasks == {"exact"}

\* What the collaborators of one submit_masks call do: all return, or the
\* first of them to raise.
Fates == {"ok", "DatasetError", "ScoringError", "RobotError"}

VALID_SUBSETS == {"train", "val", "test-dev"}

----------------------------------------------------------------------------
(* EvaluationService.__init__ *)

Init ==
    /\ davis \in Datasets
    /\ session_started = FALSE
    /\ sequences = None
    /\ sequences_scribble_idx = None
    /\ report = None
    /\ last = [op |-> "__init__", args |-> <<>>, outcome |-> "ok", ret |-> None]
    /\ okKey = None
    /\ okRows = <<>>
    /\ robotRaised = FALSE
    /\ heap = <<>>
    /\ scrLast = [op |-> "none", args |-> <<>>, outcome |-> "ok",
                  ret |-> None]

----------------------------------------------------------------------------
(* EvaluationService.start *)

\* the enumeration with range(nb_scribbles) for range(1, nb_scribbles + 1)
ScribblesOfFromZero(s, nb_scribbles) ==
    [i \in 1..nb_scribbles |-> <<s, i - 1>>]

\* for i in range(1, nb_scribbles + 1): append((s, i))
ScribblesOf(s, nb_scribbles) == [i \in 1..nb_scribbles |-> <<s, i>>]

\* for s in self.sequences: ... (the two nested loops of start)
RECURSIVE EnumerateScribbles(_, _)
EnumerateScribbles(seqs, num) ==
    IF seqs = <<>> THEN <<>>
    ELSE ScribblesOf(Head(seqs), num[Head(seqs)])
         \o EnumerateScribbles(Tail(seqs), num)

\* if subset not in self.davis.sets
SubsetAccepted(subset) == subset \in DOMAIN davis.sets

\* the point at which the call ends; filesPresent: check_files returns
StartOutcome(subset, filesPresent) ==
    IF ~SubsetAccepted(subset) THEN "InvalidArgument"
    ELSE IF ~filesPresent THEN "MissingData"
    ELSE "ok"

\* return self.sequences_scribble_idx, max_t, max_i
StartResult(work) == <<work, None, None>>

\* len(self.report), 0 while there is no report
ReportLen == IF IsNone(report) THEN 0 ELSE Len(Val(report))

\* the call without line 53, where a report exists already
StartKeepsReport(subset, filesPresent) ==
    LET out == StartOutcome(subset, filesPresent)
        seqs == davis.sets[subset]
        work == EnumerateScribbles(seqs, davis.num_scribbles)
    IN  /\ last' = [op |-> "start", args |-> <<subset>>, outcome |-> out,
                    ret |-> IF out = "ok" THEN Some(StartResult(work))
                            ELSE None,
                    discarded |-> IF out = "ok" THEN ReportLen ELSE 0]
        /\ IF out = "InvalidArgument"
           THEN UNCHANGED <<session_started, sequences,
                            sequences_scribble_idx, report, okKey, okRows,
                            robotRaised>>
           ELSE /\ sequences' = Some(seqs)
                /\ sequences_scribble_idx' = Some(work)
                /\ IF out = "MissingData"
                   THEN UNCHANGED <<session_started, report, okKey, okRows,
                                    robotRaised>>
                   ELSE /\ report' = IF IsNone(report) THEN Some(<<>>) ELSE report
                        /\ session_started' = TRUE
                        /\ okKey' = None
                        /\ okRows' = <<>>
                        /\ robotRaised' = FALSE

\* discarded: the number of rows the report held when the call replaced it
Start(subset, filesPresent) ==
    LET out == StartOutcome(subset, filesPresent)
        seqs == davis.sets[subset]
        work == EnumerateScribbles(seqs, davis.num_scribbles)
    IN  /\ last' = [op |-> "start", args |-> <<subset>>, outcome |-> out,
                    ret |-> IF out = "ok" THEN Some(StartResult(work))
                            ELSE None,
                    discarded |-> IF out = "ok" THEN ReportLen ELSE 0]
        /\ IF out = "InvalidArgument"
           THEN UNCHANGED <<session_started, sequences,
                            sequences_scribble_idx, report, okKey, okRows,
                            robotRaised>>
           ELSE /\ sequences' = Some(seqs)
                /\ sequences_scribble_idx' = Some(work)
                /\ IF out = "MissingData"
                   THEN UNCHANGED <<session_started, report, okKey, okRows,
                                    robotRaised>>
                   ELSE /\ report' = Some(<<>>)
                        /\ session_started' = TRUE
                        /\ okKey' = None
                        /\ okRows' = <<>>
                        /\ robotRaised' = FALSE

----------------------------------------------------------------------------
(* EvaluationService.get_starting_scribble *)

\* self.davis.load_scribble: the scribble the dataset holds for (sequence, idx)
LoadScribble(sequence, scribble_idx) ==
    [sequence |-> sequence, scribble |-> scribble_idx]

\* the call without its check of the pair against the work list
GetStartingScribbleOutcomeNoIdxCheck(sequence, scribble_idx, loads) ==
    IF ~session_started THEN "InvalidState"
    ELSE IF sequence \notin Range(Val(sequences)) THEN "InvalidArgument"
    ELSE IF ~loads THEN "DatasetError"
    ELSE "ok"

\* the point at which the call ends; loads: load_scribble returns
GetStartingScribbleOutcome(sequence, scribble_idx, loads) ==
    IF ~session_started THEN "InvalidState"
    ELSE IF sequence \notin Range(Val(sequences)) THEN "InvalidArgument"
    ELSE IF <<sequence, scribble_idx>> \notin Range(Val(sequences_scribble_idx))
         THEN "InvalidArgument"
    ELSE IF ~loads THEN "DatasetError"
    ELSE "ok"

GetStartingScribble(sequence, scribble_idx, loads) ==
    LET out == GetStartingScribbleOutcome(sequence, scribble_idx, loads)
    IN  /\ last' = [op |-> "get_starting_scribble",
                    args |-> <<sequence, scribble_idx>>, outcome |-> out,
                    ret |-> IF out = "ok"
                            THEN Some(LoadScribble(sequence, scribble_idx))
                            ELSE None]
        /\ UNCHANGED <<session_started, sequences, sequences_scribble_idx,
                       report, okKey, okRows, robotRaised>>

----------------------------------------------------------------------------
(* EvaluationService.submit_masks *)

\* self.report.loc[(sequence == ..) & (scribble_idx == ..) & (interaction == ..)]
ReportRows(rep, sequence, scribble_idx, interaction) ==
    {n \in 1..Len(rep) : /\ rep[n].sequence = sequence
                         /\ rep[n].scribble_idx = scribble_idx
                         /\ rep[n].interaction = interaction}

\* the first check: a result already exists for this interaction
IsDuplicate(rep, sequence, scribble_idx, interaction) ==
    Cardinality(ReportRows(rep, sequence, scribble_idx, interaction)) > 0

\* the second check with the first round taken to be round 2
IsOutOfOrderFromTwo(rep, sequence, scribble_idx, interaction) ==
    /\ interaction > 2
    /\ Cardinality(ReportRows(rep, sequence, scribble_idx, interaction - 1)) = 0

\* the second check: no result exists for the previous interaction
IsOutOfOrder(rep, sequence, scribble_idx, interaction) ==
    /\ interaction > 1
    /\ Cardinality(ReportRows(rep, sequence, scribble_idx, interaction - 1)) = 0

\* batched_jaccard(gt_masks, pred_masks, average_over_objects=False), ravelled:
\* one score per (frame, object), 100 where prediction and ground truth agree
BatchedJaccard(sequence, pred_masks) ==
    [n \in 1..(davis.nb_frames[sequence] * davis.nb_objects[sequence]) |->
        IF pred_masks = "exact" THEN 100 ELSE 0]

\* uploaded_result: one row per cell of the score table, frames outermost
\* (np.meshgrid(objects_idx, frames_idx), ravelled row by row)
UploadedResult(sequence, scribble_idx, interaction, timming, nb_frames, nb_objects, jaccard) ==
    [n \in 1..(nb_frames * nb_objects) |->
        [sequence |-> sequence,
         scribble_idx |-> scribble_idx,
         interaction |-> interaction,
         object_id |-> (n - 1) % nb_objects,
         frame |-> (n - 1) \div nb_objects,
         jaccard |-> jaccard[n],
         timming |-> timming]]

\* self.robot.interact: the next scribble, passed through
RobotInteract(sequence, pred_masks) ==
    [sequence |-> sequence, scribble |-> pred_masks]

\* the point at which the call ends
SubmitOutcome(sequence, scribble_idx, interaction, fate) ==
    IF IsNone(report) THEN "AttributeError"
    ELSE IF IsDuplicate(Val(report), sequence, scribble_idx, interaction)
         THEN "DuplicateSubmission"
    ELSE IF IsOutOfOrder(Val(report), sequence, scribble_idx, interaction)
         THEN "OutOfOrderSubmission"
    ELSE fate

\* the rows appended ahead of the ordering check
AppendsBeforeOrderCheck(out) ==
    out \in {"RobotError", "ok", "OutOfOrderSubmission"}

\* whether the call gets as far as pd.concat
Appends(out) == out \in {"RobotError", "ok"}

\* the call that ends the session when it raises
SubmitMasksEndsSession(sequence, scribble_idx, pred_masks, timming, interaction, fate, watch) ==
    LET out == SubmitOutcome(sequence, scribble_idx, interaction, fate)
        rows == UploadedResult(sequence, scribble_idx, interaction, timming,
                               davis.nb_frames[sequence],
                               davis.nb_objects[sequence],
                               BatchedJaccard(sequence, pred_masks))
    IN  /\ last' = [op |-> "submit_masks",
                    args |-> <<sequence, scribble_idx, interaction>>,
                    outcome |-> out,
                    ret |-> IF out = "ok"
                            THEN Some(RobotInteract(sequence, pred_masks))
                            ELSE None]
        /\ report' = IF Appends(out) THEN Some(Val(report) \o rows) ELSE report
        /\ okKey' = IF out = "ok" /\ watch
                    THEN Some(<<sequence, scribble_idx, interaction>>)
                    ELSE okKey
        /\ okRows' = IF out = "ok" THEN okRows \o rows ELSE okRows
        /\ robotRaised' = (robotRaised \/ out = "RobotError")
        /\ session_started' = (session_started /\ out = "ok")
        /\ UNCHANGED <<sequences, sequences_scribble_idx>>

\* watch: whether okKey remembers this call
SubmitMasks(sequence, scribble_idx, pred_masks, timming, interaction, fate, watch) ==
    LET out == SubmitOutcome(sequence, scribble_idx, interaction, fate)
        rows == UploadedResult(sequence, scribble_idx, interaction, timming,
                               davis.nb_frames[sequence],
                               davis.nb_objects[sequence],
                               BatchedJaccard(sequence, pred_masks))
    IN  /\ last' = [op |-> "submit_masks",
                    args |-> <<sequence, scribble_idx, interaction>>,
                    outcome |-> out,
                    ret |-> IF out = "ok"
                            THEN Some(RobotInteract(sequence, pred_masks))
                            ELSE None]
        /\ report' = IF Appends(out) THEN Some(Val(report) \o rows) ELSE report
        /\ okKey' = IF out = "ok" /\ watch
                    THEN Some(<<sequence, scribble_idx, interaction>>)
                    ELSE okKey
        /\ okRows' = IF out = "ok" THEN okRows \o rows ELSE okRows
        /\ robotRaised' = (robotRaised \/ out = "RobotError")
        /\ UNCHANGED <<session_started, sequences, sequences_scribble_idx>>

----------------------------------------------------------------------------
(* EvaluationService.get_report and EvaluationService.close *)

GetReport ==
    /\ last' = [op |-> "get_report", args |-> <<>>, outcome |-> "ok", ret |-> report]
    /\ UNCHANGED <<session_started, sequences, sequences_scribble_idx,
                   report, okKey, okRows, robotRaised>>

\* the call that moves the session back to NotStarted
CloseEndsSession ==
    /\ last' = [op |-> "close", args |-> <<>>, outcome |-> "ok", ret |-> None]
    /\ session_started' = FALSE
    /\ UNCHANGED <<sequences, sequences_scribble_idx, report, okKey, okRows,
                   robotRaised>>

\* pass
Close ==
    /\ last' = [op |-> "close", args |-> <<>>, outcome |-> "ok", ret |-> None]
    /\ UNCHANGED <<session_started, sequences, sequences_scribble_idx,
                   report, okKey, okRows, robotRaised>>

----------------------------------------------------------------------------
(* The session's calls, one at a time (single-threaded, synchronous) *)

\* len(uploaded_result) for a sequence
NbRows(sequence) == davis.nb_frames[sequence] * davis.nb_objects[sequence]

StartCall ==
    \E subset \in SubsetNames, filesPresent \in BOOLEAN :
        /\ Start(subset, filesPresent)
        /\ UNCHANGED <<davis, heap, scrLast>>

GetStartingScribbleCall ==
    \E sequence \in SequenceNames, scribble_idx \in ScribbleIdxs,
       loads \in BOOLEAN :
        /\ GetStartingScribble(sequence, scribble_idx, loads)
        /\ UNCHANGED <<davis, heap, scrLast>>

SubmitMasksCall ==
    \E sequence \in SequenceNames, scribble_idx \in ScribbleIdxs,
       pred_masks \in PredMasks, timming \in Timmings,
       interaction \in Interactions, fate \in Fates, watch \in BOOLEAN :
        /\ <<sequence, scribble_idx>> \in SubmittedScribbles
        /\ watch => fate = "ok"
        /\ ReportLen + NbRows(sequence) <= MaxRows
        /\ SubmitMasks(sequence, scribble_idx, pred_masks, timming,
                       interaction, fate, watch)
        /\ UNCHANGED <<davis, heap, scrLast>>

GetReportCall == GetReport /\ UNCHANGED <<davis, heap, scrLast>>

CloseCall == Close /\ UNCHANGED <<davis, heap, scrLast>>

Next ==
    \/ StartCall
    \/ GetStartingScribbleCall
    \/ SubmitMasksCall
    \/ GetReportCall
    \/ CloseCall

Spec == Init /\ [][Next]_vars

----------------------------------------------------------------------------
(* Properties of the session *)

Started == ~IsNone(report)

\* the interaction numbers that have rows for (sequence, scribble_idx)
RecordedInteractions(sequence, scribble_idx) ==
    {Val(report)[n].interaction :
        n \in {m \in 1..Len(Val(report)) :
                  /\ Val(report)[m].sequence = sequence
                  /\ Val(report)[m].scribble_idx = scribble_idx}}

\* no two rows of the report carry the same (sequence, scribble_idx,
\* interaction, object_id, frame): no cell was scored by two submissions
NoRowTwice ==
    \A m, n \in 1..Len(Val(report)) :
        (/\ Val(report)[m].sequence = Val(report)[n].sequence
         /\ Val(report)[m].scribble_idx = Val(report)[n].scribble_idx
         /\ Val(report)[m].interaction = Val(report)[n].interaction
         /\ Val(report)[m].object_id = Val(report)[n].object_id
         /\ Val(report)[m].frame = Val(report)[n].frame) => m = n

(* C1: in every state reached after start, for every (sequence,            *)
(* scribble_idx) the interaction numbers that have rows in the report are  *)
(* exactly 1..k for some k >= 0, and no interaction is recorded twice.     *)
C1_InteractionsGapless ==
    Started =>
        /\ \A sequence \in SequenceNames, scribble_idx \in ScribbleIdxs :
              \E k \in 0..(MaxInteraction + 1) :
                  RecordedInteractions(sequence, scribble_idx) = 1..k
        /\ NoRowTwice

(* C2: once submit_masks(seq, idx, k) has returned, every later            *)
(* submit_masks call with the same (seq, idx, k) before the next start     *)
(* fails with DuplicateSubmission.                                          *)
C2_ResubmissionIsDuplicate ==
    [][(/\ last'.op = "submit_masks"
        /\ session_started'
        /\ ~IsNone(okKey)
        /\ last'.args = Val(okKey))
       => last'.outcome = "DuplicateSubmission"]_vars

(* C3: on a session that has a report, submit_masks with interaction > 1   *)
(* fails with OutOfOrderSubmission whenever the report holds no row for    *)
(* (seq, idx, interaction - 1), a fresh session included; a submission     *)
(* with interaction = 1 is never rejected for a missing predecessor.       *)
C3_MissingPredecessorRejected ==
    [][(last'.op = "submit_masks" /\ Started) =>
          LET sequence == last'.args[1]
              scribble_idx == last'.args[2]
              interaction == last'.args[3]
          IN  /\ (/\ interaction > 1
                  /\ (interaction - 1)
                         \notin RecordedInteractions(sequence, scribble_idx))
                 => last'.outcome = "OutOfOrderSubmission"
              /\ interaction = 1 => last'.outcome # "OutOfOrderSubmission"]_vars

\* a submission with interaction 2 was rejected on a session whose report
\* holds rows of another scribble only
C3_Witness ==
    /\ last.op = "submit_masks"
    /\ last.outcome = "OutOfOrderSubmission"
    /\ last.args[3] = 2
    /\ Started
    /\ Len(Val(report)) > 0
    /\ RecordedInteractions(last.args[1], last.args[2]) = {}

\* rep1 is rep2 or rep2 with rows appended
IsPrefix(rep1, rep2) ==
    /\ Len(rep1) <= Len(rep2)
    /\ \A n \in 1..Len(rep1) : rep1[n] = rep2[n]

(* C4: a submit_masks call that fails its duplicate or its ordering check  *)
(* leaves the report as it was, no call but start alters or removes a row, *)
(* and as long as every submission since the last start was either         *)
(* rejected by a check or returned, the report holds exactly the rows of   *)
(* the submissions that returned, in submission order.                     *)
C4_RejectedLeavesReport ==
    /\ []((Started /\ ~robotRaised) => Val(report) = okRows)
    /\ [][/\ (/\ last'.op = "submit_masks"
              /\ last'.outcome \in {"DuplicateSubmission",
                                    "OutOfOrderSubmission"})
             => report' = report
          /\ (Started /\ last'.op # "start")
             => IsPrefix(Val(report), Val(report'))]_vars

\* a duplicate was rejected on a report that holds an accepted submission
C4_Witness ==
    /\ last.op = "submit_masks"
    /\ last.outcome = "DuplicateSubmission"
    /\ Started
    /\ ~robotRaised
    /\ Len(okRows) > 0
    /\ Val(report) = okRows

(* C5: whenever submit_masks raises, for whatever reason, the report is    *)
(* what it was before the call.                                             *)
C5_RaiseLeavesReport ==
    [][(last'.op = "submit_masks" /\ last'.outcome # "ok")
       => report' = report]_vars

\* the pairs (sequence, i), i = 1..scribbleCount(sequence), of a sequence list
ExpectedPairs(seqs) ==
    UNION {{<<s, i>> : i \in 1..davis.num_scribbles[s]} : s \in Range(seqs)}

\* the position of a sequence in a list without repetitions
PositionIn(seqs, s) == CHOOSE p \in 1..Len(seqs) : seqs[p] = s

(* C6: a start(subset) that returns yields a work list that holds exactly  *)
(* the pairs (sequence, i), i = 1..scribbleCount(sequence), of the         *)
(* subset's sequences, each once, sequences in the dataset's order and i   *)
(* increasing; the session is Started and the two other results are None.  *)
C6_StartWorkList ==
    (last.op = "start" /\ last.outcome = "ok") =>
        LET seqs == davis.sets[last.args[1]]
            work == Val(last.ret)[1]
        IN  /\ session_started
            /\ Val(last.ret)[2] = None
            /\ Val(last.ret)[3] = None
            /\ Range(work) = ExpectedPairs(seqs)
            /\ Len(work) = Cardinality(ExpectedPairs(seqs))
            /\ \A m, n \in 1..Len(work) :
                  m < n =>
                     \/ PositionIn(seqs, work[m][1]) < PositionIn(seqs, work[n][1])
                     \/ /\ work[m][1] = work[n][1]
                        /\ work[m][2] < work[n][2]

\* start returned on a subset with three sequences, one without scribbles
C6_Witness ==
    /\ last.op = "start"
    /\ last.outcome = "ok"
    /\ Len(davis.sets[last.args[1]]) = 3
    /\ Len(Val(last.ret)[1]) = 3
    /\ \E s \in Range(davis.sets[last.args[1]]) : davis.num_scribbles[s] = 0

(* C7: start(subset) fails with InvalidArgument for every subset name      *)
(* outside VALID_SUBSETS, whatever the dataset lists, and returns only for *)
(* names in VALID_SUBSETS.                                                  *)
C7_OnlyValidSubsetsStart ==
    last.op = "start" =>
        /\ last.args[1] \notin VALID_SUBSETS => last.outcome = "InvalidArgument"
        /\ last.outcome = "ok" => last.args[1] \in VALID_SUBSETS

(* C8: get_starting_scribble fails with InvalidState on a session that is  *)
(* not started, whatever its arguments; on a started one it fails with     *)
(* InvalidArgument when the sequence is not in the sequence list or the    *)
(* pair is not in the work list; otherwise it returns what load_scribble   *)
(* returns (or raises what it raises); it changes no session field.        *)
C8_GetStartingScribble ==
    [][last'.op = "get_starting_scribble" =>
          LET sequence == last'.args[1]
              scribble_idx == last'.args[2]
          IN  /\ UNCHANGED <<session_started, sequences,
                             sequences_scribble_idx, report>>
              /\ ~session_started => last'.outcome = "InvalidState"
              /\ session_started =>
                    IF \/ sequence \notin Range(Val(sequences))
                       \/ <<sequence, scribble_idx>>
                             \notin Range(Val(sequences_scribble_idx))
                    THEN last'.outcome = "InvalidArgument"
                    ELSE /\ last'.outcome \in {"ok", "DatasetError"}
                         /\ last'.outcome = "ok" =>
                               last'.ret = Some(LoadScribble(sequence,
                                                             scribble_idx))]_vars

\* a scribble of the work list was handed out
C8_Witness ==
    /\ last.op = "get_starting_scribble"
    /\ last.outcome = "ok"
    /\ last.args[2] = 2
    /\ last.ret = Some(LoadScribble(last.args[1], 2))

\* the call was refused for a pair outside the work list of a known sequence
C8_WitnessRefused ==
    /\ last.op = "get_starting_scribble"
    /\ last.outcome = "InvalidArgument"
    /\ last.args[1] \in Range(Val(sequences))

----------------------------------------------------------------------------
(* utils/scribbles.py.  A scribble dictionary, its list of frames and each *)
(* frame's list of paths are Python objects: the heap maps an address to   *)
(* the object there.  A path is the value                                  *)
(* [path |-> points, object_id |-> id], its points in normalized           *)
(* coordinates: the coordinate c stands for the float c / CoordUnits.      *)

MaxScrFrames == 2

MaxPaths == 2

MaxDicts == 3

CoordUnits == 4

\* from (0, 0) to (1, 1)
Stroke1 == [path |-> <<<<0, 0>>, <<4, 4>>>>, object_id |-> 1]

\* from (1, 1) to (0.75, 0.25)
Stroke2 == [path |-> <<<<4, 4>>, <<3, 1>>>>, object_id |-> 2]

\* the frames the initial scribbles are made of
FrameChoices == {<<>>, <<Stroke1>>, <<Stroke2>>}

ScribbleSequences == {"bear", "camel"}

\* {'sequence': .., 'scribbles': .., ['annotated_frame': ..]}
DictObject(sequence, scribbles, annotated_frame) ==
    [type |-> "dict", sequence |-> sequence, scribbles |-> scribbles,
     annotated_frame |-> annotated_frame]

ListObject(items) == [type |-> "list", items |-> items]

\* the objects of one scribble dictionary placed at address base + 1: the
\* dictionary, its list of frames, then one list of paths per frame
ScribbleObjects(base, sequence, frames, annotated_frame) ==
    <<DictObject(sequence, base + 2, annotated_frame),
      ListObject([i \in 1..Len(frames) |-> base + 2 + i])>>
    \o [i \in 1..Len(frames) |-> ListObject(frames[i])]

FrameLists == UNION {[1..n -> FrameChoices] : n \in 0..MaxScrFrames}

\* the addresses of the dictionaries on the heap
Dicts(h) == {a \in 1..Len(h) : h[a].type = "dict"}

\* scribbles_data['scribbles'][i], frames counted from 1
FrameAddr(h, d, i) == h[h[d].scribbles].items[i]

\* len(scribbles_data['scribbles'])
NbFrames(h, d) == Len(h[h[d].scribbles].items)

\* the paths of frame i of the dictionary at d
FramePaths(h, d, i) == h[FrameAddr(h, d, i)].items

\* the dictionary at d as a value: every frame's list of paths
Scribbles(h, d) == [i \in 1..NbFrames(h, d) |-> FramePaths(h, d, i)]

\* no 'annotated_frame' key, or the index of one of the frames
AnnotatedFrames(frames) == {None} \cup {Some(k) : k \in 0..(Len(frames) - 1)}

InitScribbles ==
    /\ \E framesA \in FrameLists, framesB \in FrameLists,
          sequenceB \in ScribbleSequences :
          \E annotatedA \in AnnotatedFrames(framesA)
                            \cap {None, Some(Len(framesA) - 1)},
             annotatedB \in {IF framesB = <<>> THEN None ELSE Some(0)} :
             heap = ScribbleObjects(0, "bear", framesA, annotatedA)
                    \o ScribbleObjects(2 + Len(framesA), sequenceB, framesB,
                                       annotatedB)
    /\ scrLast = [op |-> "none", args |-> <<>>, outcome |-> "ok",
                  ret |-> None]
    /\ davis = DavisVal
    /\ session_started = FALSE
    /\ sequences = None
    /\ sequences_scribble_idx = None
    /\ report = None
    /\ last = [op |-> "__init__", args |-> <<>>, outcome |-> "ok", ret |-> None]
    /\ okKey = None
    /\ okRows = <<>>
    /\ robotRaised = FALSE

(* fuse_scribbles *)

\* the two assertions
FuseOutcome(h, a, b) ==
    IF h[a].sequence # h[b].sequence THEN "AssertionError"
    ELSE IF NbFrames(h, a) # NbFrames(h, b) THEN "AssertionError"
    ELSE "ok"

\* scribbles = dict(scribbles_a): a new dictionary with the values of a's keys
DictCopy(h, a) == h[a]

\* the += with its operands exchanged
ExtendFrameInFront(h, target, source) ==
    [h EXCEPT ![target].items = h[source].items \o h[target].items]

\* scribbles['scribbles'][i] += scribbles_b['scribbles'][i]: the list at
\* frame i of the copy is extended in place
ExtendFrame(h, target, source) ==
    [h EXCEPT ![target].items = h[target].items \o h[source].items]

\* for i in range(nb_frames): ..., frames i..nb_frames still to do
RECURSIVE FuseLoop(_, _, _, _, _)
FuseLoop(h, scribbles, b, i, nb_frames) ==
    IF i > nb_frames THEN h
    ELSE FuseLoop(ExtendFrame(h, FrameAddr(h, scribbles, i),
                              FrameAddr(h, b, i)),
                  scribbles, b, i + 1, nb_frames)

\* the heap when fuse_scribbles(a, b) returns; the result is the last object
FuseHeap(h, a, b) ==
    LET copied == Append(h, DictCopy(h, a))
        scribbles == Len(copied)
    IN  FuseLoop(copied, scribbles, b, 1, NbFrames(copied, scribbles))

FuseScribbles(a, b) ==
    LET out == FuseOutcome(heap, a, b)
    IN  /\ heap' = IF out = "ok" THEN FuseHeap(heap, a, b) ELSE heap
        /\ scrLast' = [op |-> "fuse_scribbles", args |-> <<a, b>>,
                       outcome |-> out,
                       ret |-> IF out = "ok" THEN Some(Len(heap) + 1)
                               ELSE None]

(* is_empty *)

\* has_lines = [len(s) > 0 for s in scribbles]; return any(has_lines)
IsEmptyResult(h, d) ==
    \E i \in 1..NbFrames(h, d) : Len(FramePaths(h, d, i)) > 0

IsEmpty(d) ==
    /\ scrLast' = [op |-> "is_empty", args |-> <<d>>, outcome |-> "ok",
                   ret |-> Some(IsEmptyResult(heap, d))]
    /\ UNCHANGED heap

(* The scribble utilities' calls *)

\* the longest list of paths fuse_scribbles(a, b) would leave
LongestFused(h, a, b) ==
    IF NbFrames(h, a) = 0 \/ NbFrames(h, a) # NbFrames(h, b) THEN 0
    ELSE LET lens == {Len(FramePaths(h, a, i)) + Len(FramePaths(h, b, i)) :
                         i \in 1..NbFrames(h, a)}
         IN  CHOOSE n \in lens : \A m \in lens : m <= n

FuseScribblesCall ==
    \E a \in Dicts(heap), b \in Dicts(heap) :
        /\ Cardinality(Dicts(heap)) < MaxDicts
        /\ LongestFused(heap, a, b) <= MaxPaths
        /\ FuseScribbles(a, b)
        /\ UNCHANGED sessionVars

IsEmptyCall ==
    \E d \in Dicts(heap) :
        /\ IsEmpty(d)
        /\ UNCHANGED sessionVars

NextScribbles ==
    \/ FuseScribblesCall
    \/ IsEmptyCall

SpecScribbles == InitScribbles /\ [][NextScribbles]_vars

----------------------------------------------------------------------------
(* Properties of the scribble utilities *)

(* C9: is_empty returns true exactly when every frame of the scribble has  *)
(* no path: false as soon as one frame holds a path, true for a scribble   *)
(* without frames.                                                          *)
C9_IsEmptyIffNoPath ==
    scrLast.op = "is_empty" =>
        LET d == scrLast.args[1]
        IN  Val(scrLast.ret) =
               (\A i \in 1..NbFrames(heap, d) : FramePaths(heap, d, i) = <<>>)

(* C10: fuse_scribbles never mutates its arguments: every frame of A and   *)
(* of B holds after the call the paths it held before, and the result      *)
(* shares with A neither the list of frames nor a frame's list of paths.   *)
C10_FuseLeavesArguments ==
    [][scrLast'.op = "fuse_scribbles" =>
          LET a == scrLast'.args[1]
              b == scrLast'.args[2]
          IN  /\ Scribbles(heap', a) = Scribbles(heap, a)
              /\ Scribbles(heap', b) = Scribbles(heap, b)
              /\ scrLast'.outcome = "ok" =>
                    LET r == Val(scrLast'.ret)
                    IN  /\ heap'[r].scribbles # heap'[a].scribbles
                        /\ \A i \in 1..NbFrames(heap', r) :
                              FrameAddr(heap', r, i) # FrameAddr(heap', a, i)]_vars

(* C11: for A and B of the same sequence and with as many frames,          *)
(* fuse_scribbles returns a scribble whose sequence and annotated_frame    *)
(* are A's and whose frame i holds the paths A's frame i held before the   *)
(* call, in order, followed by those of B's frame i; when the sequences or *)
(* the frame counts differ the call fails (AssertionError, the code's      *)
(* InvalidArgument here) and no object is created or changed.              *)
C11_FuseConcatenates ==
    [][scrLast'.op = "fuse_scribbles" =>
          LET a == scrLast'.args[1]
              b == scrLast'.args[2]
          IN  IF /\ heap[a].sequence = heap[b].sequence
                 /\ NbFrames(heap, a) = NbFrames(heap, b)
              THEN /\ scrLast'.outcome = "ok"
                   /\ LET r == Val(scrLast'.ret)
                      IN  /\ r \notin Dicts(heap)
                          /\ heap'[r].sequence = heap[a].sequence
                          /\ heap'[r].annotated_frame = heap[a].annotated_frame
                          /\ Scribbles(heap', r) =
                                [i \in 1..NbFrames(heap, a) |->
                                    FramePaths(heap, a, i)
                                    \o FramePaths(heap, b, i)]
              ELSE /\ scrLast'.outcome = "AssertionError"
                   /\ scrLast'.ret = None
                   /\ heap' = heap]_vars

\* two scribbles with paths in both frames were fused, A's annotated frame
\* being frame 1 and B's frame 0
C11_Witness ==
    /\ scrLast.op = "fuse_scribbles"
    /\ scrLast.outcome = "ok"
    /\ scrLast.args[1] # scrLast.args[2]
    /\ heap[scrLast.args[1]].annotated_frame = Some(1)
    /\ heap[scrLast.args[2]].annotated_frame = Some(0)
    /\ heap[Val(scrLast.ret)].annotated_frame = Some(1)
    /\ Scribbles(heap, Val(scrLast.ret)) =
          <<<<Stroke1, Stroke2>>, <<Stroke2, Stroke1>>>>

\* a fusion was refused for scribbles of one sequence with unequal frame counts
C11_WitnessRefused ==
    /\ scrLast.op = "fuse_scribbles"
    /\ scrLast.outcome = "AssertionError"
    /\ heap[scrLast.args[1]].sequence = heap[scrLast.args[2]].sequence

(***************************************************************************)
(* scribbles2mask.  A mask is a sequence of frames; a frame is a function  *)
(* from the rows 0..H-1 to functions from the columns 0..W-1 to the cell's *)
(* value.  Pixels are pairs <<x, y>>, as the points of a path are.         *)
(***************************************************************************)
MaxRes == 3

\* output_resolution: (H, W) tuples, and tuples of another length
Resolutions ==
    {<<h, w>> : h \in 0..MaxRes, w \in 0..MaxRes} \cup {<<>>, <<2>>, <<2, 2, 2>>}

\* default_value: the default of the signature, and the id of an object
DefaultValues == {-1, 1}

\* frames that hold up to two paths
MaskFrameChoices == FrameChoices \cup {<<Stroke1, Stroke2>>, <<Stroke2, Stroke1>>}

MaskFrameLists ==
    UNION {[1..n -> MaskFrameChoices] : n \in 0..MaxScrFrames}

Abs(n) == IF n < 0 THEN -n ELSE n

Sign(n) == IF n < 0 THEN -1 ELSE IF n > 0 THEN 1 ELSE 0

Max(m, n) == IF m < n THEN n ELSE m

\* the scaling with (W, H) in place of (W - 1, H - 1)
ScalePointBySize(pt, output_resolution) ==
    <<(pt[1] * output_resolution[2]) \div CoordUnits,
      (pt[2] * output_resolution[1]) \div CoordUnits>>

\* path *= size_array; path.astype(np.int): x is scaled by W - 1 and y by
\* H - 1, then the fraction is dropped
ScalePoint(pt, output_resolution) ==
    <<(pt[1] * (output_resolution[2] - 1)) \div CoordUnits,
      (pt[2] * (output_resolution[1] - 1)) \div CoordUnits>>

ScalePath(path, output_resolution) ==
    [i \in 1..Len(path) |-> ScalePoint(path[i], output_resolution)]

\* the integer line from p to q, both ends included
Line(p, q) ==
    LET dx == q[1] - p[1]
        dy == q[2] - p[2]
        n  == Max(Abs(dx), Abs(dy))
    IN  IF n = 0
        THEN <<p>>
        ELSE [k \in 1..(n + 1) |->
                 <<p[1] + Sign(dx) * ((2 * (k - 1) * Abs(dx) + n) \div (2 * n)),
                   p[2] + Sign(dy) * ((2 * (k - 1) * Abs(dy) + n) \div (2 * n))>>]

RECURSIVE Lines(_, _)
Lines(points, i) ==
    IF i >= Len(points)
    THEN <<>>
    ELSE Line(points[i], points[i + 1]) \o Lines(points, i + 1)

\* bresenham(path): the lines between consecutive points, concatenated
Bresenham(points) == IF Len(points) < 2 THEN points ELSE Lines(points, 1)

\* the pixels a path is written to
PathPixels(p, output_resolution, bresenham_) ==
    LET path == ScalePath(p.path, output_resolution)
    IN  IF bresenham_ THEN Bresenham(path) ELSE path

\* np.full(output_resolution, default_value)
FullFrame(output_resolution, default_value) ==
    [row \in 0..(output_resolution[1] - 1) |->
        [col \in 0..(output_resolution[2] - 1) |-> default_value]]

InFrame(px, output_resolution) ==
    /\ px[1] \in 0..(output_resolution[2] - 1)
    /\ px[2] \in 0..(output_resolution[1] - 1)

\* the assignment that leaves alone a cell which holds a value already
WritePathFirstWins(m, pixels, obj_id, default_value) ==
    [row \in DOMAIN m |->
        [col \in DOMAIN m[row] |->
            IF /\ m[row][col] = default_value
               /\ \E i \in 1..Len(pixels) : pixels[i] = <<col, row>>
            THEN obj_id
            ELSE m[row][col]]]

\* m[path[:, 1], path[:, 0]] = obj_id
WritePath(m, pixels, obj_id, default_value) ==
    [row \in DOMAIN m |->
        [col \in DOMAIN m[row] |->
            IF \E i \in 1..Len(pixels) : pixels[i] = <<col, row>>
            THEN obj_id
            ELSE m[row][col]]]

\* for p in sp: the paths of one frame are written in the order of the list
RECURSIVE DrawPaths(_, _, _, _, _)
DrawPaths(m, sp, output_resolution, bresenham_, default_value) ==
    IF sp = <<>>
    THEN m
    ELSE DrawPaths(WritePath(m, PathPixels(Head(sp), output_resolution,
                                           bresenham_),
                             Head(sp).object_id, default_value),
                   Tail(sp), output_resolution, bresenham_, default_value)

\* masks after the loop over the frames
Masks(h, d, output_resolution, bresenham_, default_value) ==
    [f \in 1..NbFrames(h, d) |->
        DrawPaths(FullFrame(output_resolution, default_value),
                  FramePaths(h, d, f), output_resolution, bresenham_,
                  default_value)]

\* an index of the assignment lies outside the frame
WritesOutside(h, d, output_resolution, bresenham_) ==
    \E f \in 1..NbFrames(h, d) :
       \E k \in 1..Len(FramePaths(h, d, f)) :
          LET pixels == PathPixels(FramePaths(h, d, f)[k], output_resolution,
                                   bresenham_)
          IN  \E i \in 1..Len(pixels) : ~InFrame(pixels[i], output_resolution)

ValidResolution(output_resolution) ==
    /\ Len(output_resolution) = 2
    /\ \A i \in 1..Len(output_resolution) : ~(output_resolution[i] < 1)

Scribbles2MaskOutcome(h, d, output_resolution, only_annotated_frame, bresenham_) ==
    IF ~ValidResolution(output_resolution)
    THEN "ValueError"
    ELSE IF WritesOutside(h, d, output_resolution, bresenham_)
    THEN "IndexError"
    ELSE IF only_annotated_frame /\ IsNone(h[d].annotated_frame)
    THEN "ValueError"
    ELSE "ok"

\* the frame at index 0 whatever the annotated frame is
Scribbles2MaskFirstFrame(h, d, output_resolution, only_annotated_frame, bresenham_, default_value) ==
    LET masks == Masks(h, d, output_resolution, bresenham_, default_value)
    IN  IF only_annotated_frame THEN masks[1] ELSE masks

\* return masks[annotated_frame], or return masks
Scribbles2MaskResult(h, d, output_resolution, only_annotated_frame, bresenham_, default_value) ==
    LET masks == Masks(h, d, output_resolution, bresenham_, default_value)
    IN  IF only_annotated_frame
        THEN masks[Val(h[d].annotated_frame) + 1]
        ELSE masks

Scribbles2Mask(d, output_resolution, only_annotated_frame, bresenham_, default_value) ==
    LET outcome == Scribbles2MaskOutcome(heap, d, output_resolution,
                                         only_annotated_frame, bresenham_)
    IN  /\ scrLast' =
              [op |-> "scribbles2mask",
               args |-> <<d, output_resolution, only_annotated_frame,
                          bresenham_, default_value>>,
               outcome |-> outcome,
               ret |-> IF outcome = "ok"
                       THEN Some(Scribbles2MaskResult(heap, d,
                                    output_resolution, only_annotated_frame,
                                    bresenham_, default_value))
                       ELSE None]
        /\ UNCHANGED heap

\* the call whose arguments scrLast holds
Scribbles2MaskCall ==
    /\ scrLast.op = "none"
    /\ Len(scrLast.args) = 5
    /\ Scribbles2Mask(scrLast.args[1], scrLast.args[2], scrLast.args[3],
                      scrLast.args[4], scrLast.args[5])
    /\ UNCHANGED sessionVars

\* one scribble dict, with or without an annotated frame, and the other
\* arguments of the call to come
InitMask ==
    /\ \E frames \in MaskFrameLists :
          \E annotated \in AnnotatedFrames(frames) :
             heap = ScribbleObjects(0, "bear", frames, annotated)
    /\ \E output_resolution \in Resolutions, only_annotated_frame \in BOOLEAN,
          bresenham_ \in BOOLEAN, default_value \in DefaultValues :
          scrLast = [op |-> "none",
                     args |-> <<1, output_resolution, only_annotated_frame,
                                bresenham_, default_value>>,
                     outcome |-> "ok", ret |-> None]
    /\ davis = DavisVal
    /\ session_started = FALSE
    /\ sequences = None
    /\ sequences_scribble_idx = None
    /\ report = None
    /\ last = [op |-> "__init__", args |-> <<>>, outcome |-> "ok", ret |-> None]
    /\ okKey = None
    /\ okRows = <<>>
    /\ robotRaised = FALSE

NextMask == Scribbles2MaskCall

SpecMask == InitMask /\ [][NextMask]_vars

(* fuse_scribbles applied to the scribbles Init drew, then scribbles2mask  *)
(* applied to the arguments and to the result                              *)
FuseOriginalsCall ==
    /\ scrLast.op = "none"
    /\ \E a \in Dicts(heap), b \in Dicts(heap) : FuseScribbles(a, b)
    /\ UNCHANGED sessionVars

NextOverlay == FuseOriginalsCall

\* two scribbles of one sequence with as many frames, their paths drawn
\* frame by frame
InitOverlay ==
    /\ \E framesA \in FrameLists :
          \E framesB \in [DOMAIN framesA -> FrameChoices] :
             heap = ScribbleObjects(0, "bear", framesA, None)
                    \o ScribbleObjects(2 + Len(framesA), "bear", framesB, None)
    /\ scrLast = [op |-> "none", args |-> <<>>, outcome |-> "ok",
                  ret |-> None]
    /\ davis = DavisVal
    /\ session_started = FALSE
    /\ sequences = None
    /\ sequences_scribble_idx = None
    /\ report = None
    /\ last = [op |-> "__init__", args |-> <<>>, outcome |-> "ok", ret |-> None]
    /\ okKey = None
    /\ okRows = <<>>
    /\ robotRaised = FALSE

SpecOverlay == InitOverlay /\ [][NextOverlay]_vars

\* the resolutions the fused masks are compared at: one row, and the largest
OverlayResolutions == {<<1, 2>>, <<MaxRes, MaxRes>>}

\* each cell takes the value of maskB where that is not default_value,
\* otherwise the value of maskA
Overlay(maskA, maskB, default_value) ==
    [f \in DOMAIN maskA |->
        [row \in DOMAIN maskA[f] |->
            [col \in DOMAIN maskA[f][row] |->
                IF maskB[f][row][col] # default_value
                THEN maskB[f][row][col]
                ELSE maskA[f][row][col]]]]

\* the object ids of a list of paths
PathObjectIds(sp) == {sp[k].object_id : k \in 1..Len(sp)}

\* the object ids of the paths of the dictionary at d
ObjectIds(h, d) == UNION {PathObjectIds(FramePaths(h, d, f)) : f \in 1..NbFrames(h, d)}

\* the fused mask against the overlay of the masks of the arguments, these
\* taken from the heap before the call and from the heap after it
OverlayHolds(a, b, r, output_resolution, bresenham_, default_value) ==
    LET fused == Masks(heap', r, output_resolution, bresenham_, default_value)
    IN  /\ fused = Overlay(Masks(heap, a, output_resolution, bresenham_,
                                 default_value),
                           Masks(heap, b, output_resolution, bresenham_,
                                 default_value),
                           default_value)
        /\ fused = Overlay(Masks(heap', a, output_resolution, bresenham_,
                                 default_value),
                           Masks(heap', b, output_resolution, bresenham_,
                                 default_value),
                           default_value)

(* C12 as stated: for fusable A and B and any one choice of resolution,    *)
(* line rasterization and default value, the mask of fuse(A, B) is the     *)
(* overlay of the mask of B on the mask of A, each cell taking B's value   *)
(* where that is not the default value and A's value elsewhere, whether    *)
(* the masks of A and B are computed before the fuse call or after it.     *)
C12_FusedMaskIsOverlay ==
    [][scrLast'.op = "fuse_scribbles" /\ scrLast'.outcome = "ok" =>
          \A output_resolution \in OverlayResolutions,
             bresenham_ \in BOOLEAN, default_value \in DefaultValues :
             OverlayHolds(scrLast'.args[1], scrLast'.args[2],
                          Val(scrLast'.ret), output_resolution, bresenham_,
                          default_value)]_vars

(* C12 amended: the same, for every default value that is not the object   *)
(* id of a path of B.                                                      *)
C12_FusedMaskIsOverlayOffIds ==
    [][scrLast'.op = "fuse_scribbles" /\ scrLast'.outcome = "ok" =>
          \A output_resolution \in OverlayResolutions,
             bresenham_ \in BOOLEAN,
             default_value \in DefaultValues
                               \ ObjectIds(heap, scrLast'.args[2]) :
             OverlayHolds(scrLast'.args[1], scrLast'.args[2],
                          Val(scrLast'.ret), output_resolution, bresenham_,
                          default_value)]_vars

\* A's frame held Stroke2 and B's frame Stroke1; in the mask of the fused
\* scribble the pixel at the end the two strokes share holds B's object id
C12_Witness ==
    /\ scrLast.op = "fuse_scribbles"
    /\ scrLast.outcome = "ok"
    /\ scrLast.args[1] # scrLast.args[2]
    /\ NbFrames(heap, Val(scrLast.ret)) > 0
    /\ FramePaths(heap, Val(scrLast.ret), 1) = <<Stroke2, Stroke1>>
    /\ FramePaths(heap, scrLast.args[2], 1) = <<Stroke1>>
    /\ Masks(heap, Val(scrLast.ret), <<MaxRes, MaxRes>>, TRUE,
             -1)[1][MaxRes - 1][MaxRes - 1] = 1

(* C13: for a resolution (H, W) with H >= 1 and W >= 1, scribbles2mask     *)
(* returns numFrames frames of H rows and W columns; every cell holds the  *)
(* default value or the object id of a path of the same frame; the point   *)
(* (x, y) of a path lands on row trunc(y * (H - 1)) and column             *)
(* trunc(x * (W - 1)), which lie inside the frame (also for H = 1 or       *)
(* W = 1), and the cell there holds the id of that path or of a path drawn *)
(* after it.                                                               *)
C13_MaskWithinFrame ==
    (/\ scrLast.op = "scribbles2mask"
     /\ ValidResolution(scrLast.args[2])
     /\ ~scrLast.args[3])
    => /\ scrLast.outcome = "ok"
       /\ LET d     == scrLast.args[1]
              H     == scrLast.args[2][1]
              W     == scrLast.args[2][2]
              masks == Val(scrLast.ret)
          IN  /\ DOMAIN masks = 1..NbFrames(heap, d)
              /\ \A f \in 1..NbFrames(heap, d) :
                    LET sp == FramePaths(heap, d, f)
                    IN  /\ DOMAIN masks[f] = 0..(H - 1)
                        /\ \A row \in 0..(H - 1) :
                              /\ DOMAIN masks[f][row] = 0..(W - 1)
                              /\ \A col \in 0..(W - 1) :
                                    masks[f][row][col]
                                       \in {scrLast.args[5]}
                                           \cup PathObjectIds(sp)
                        /\ \A k \in 1..Len(sp) :
                              \A i \in 1..Len(sp[k].path) :
                                 LET row == (sp[k].path[i][2] * (H - 1))
                                               \div CoordUnits
                                     col == (sp[k].path[i][1] * (W - 1))
                                               \div CoordUnits
                                 IN  /\ row \in 0..(H - 1)
                                     /\ col \in 0..(W - 1)
                                     /\ masks[f][row][col]
                                           \in {sp[j].object_id :
                                                   j \in k..Len(sp)}

\* a mask of one row: Stroke2, drawn after Stroke1, holds the last column,
\* and its point (0.75, 0.25) fell on the column before
C13_Witness ==
    /\ scrLast.op = "scribbles2mask"
    /\ scrLast.outcome = "ok"
    /\ scrLast.args[2] = <<1, MaxRes>>
    /\ ~scrLast.args[3]
    /\ ~scrLast.args[4]
    /\ NbFrames(heap, 1) > 0
    /\ FramePaths(heap, 1, 1) = <<Stroke1, Stroke2>>
    /\ Val(scrLast.ret)[1][0][MaxRes - 1] = 2
    /\ Val(scrLast.ret)[1][0][(3 * (MaxRes - 1)) \div CoordUnits] = 2
    /\ Val(scrLast.ret)[1][0][0] = 1

(* C14: scribbles2mask raises ValueError when output_resolution has not    *)
(* two entries or has an entry below 1; with only_annotated_frame it       *)
(* raises ValueError when the scribble has no annotated_frame and          *)
(* otherwise returns the H x W frame at index annotated_frame of the mask  *)
(* that the same arguments give without only_annotated_frame.              *)
C14_AnnotatedFrameOnly ==
    scrLast.op = "scribbles2mask"
    => LET d                 == scrLast.args[1]
           output_resolution == scrLast.args[2]
           annotated_frame   == heap[d].annotated_frame
       IN  IF \/ Len(output_resolution) # 2
              \/ \E i \in 1..Len(output_resolution) : output_resolution[i] < 1
           THEN scrLast.outcome = "ValueError" /\ scrLast.ret = None
           ELSE IF ~scrLast.args[3]
           THEN TRUE
           ELSE IF IsNone(annotated_frame)
           THEN scrLast.outcome = "ValueError" /\ scrLast.ret = None
           ELSE /\ scrLast.outcome = "ok"
                /\ Val(scrLast.ret) =
                      Masks(heap, d, output_resolution, scrLast.args[4],
                            scrLast.args[5])[Val(annotated_frame) + 1]
                /\ DOMAIN Val(scrLast.ret) = 0..(output_resolution[1] - 1)
                /\ \A row \in DOMAIN Val(scrLast.ret) :
                      DOMAIN Val(scrLast.ret)[row] =
                         0..(output_resolution[2] - 1)

\* the annotated frame is the second one and its mask is not the first one's
C14_Witness ==
    /\ scrLast.op = "scribbles2mask"
    /\ scrLast.outcome = "ok"
    /\ scrLast.args[3]
    /\ heap[1].annotated_frame = Some(1)
    /\ LET masks == Masks(heap, 1, scrLast.args[2], scrLast.args[4],
                          scrLast.args[5])
       IN  /\ Val(scrLast.ret) = masks[2]
           /\ masks[2] # masks[1]

\* only the annotated frame was asked of a scribble that has none
C14_WitnessNoAnnotatedFrame ==
    /\ scrLast.op = "scribbles2mask"
    /\ scrLast.outcome = "ValueError"
    /\ scrLast.args[3]
    /\ ValidResolution(scrLast.args[2])
    /\ NbFrames(heap, 1) > 0

(* C15: a start that returns leaves the report empty whatever it held; on  *)
(* an empty report submit_masks does not refuse interaction 1 as duplicate *)
(* or out of order, whatever was submitted before the restart, and refuses *)
(* interaction 2 as out of order.                                          *)
C15_StartEmptiesReport ==
    [][/\ last'.op = "start" /\ last'.outcome = "ok" => report' = Some(<<>>)
       /\ (last'.op = "submit_masks" /\ report = Some(<<>>)) =>
             /\ last'.args[3] = 1 =>
                   last'.outcome \notin {"DuplicateSubmission",
                                         "OutOfOrderSubmission"}
             /\ last'.args[3] = 2 => last'.outcome = "OutOfOrderSubmission"]_vars

\* start returned on a session whose report held rows
C15_Witness ==
    /\ last.op = "start"
    /\ last.outcome = "ok"
    /\ last.discarded > 0
    /\ report = Some(<<>>)

(* C16: submit_masks, returning or raising, leaves the sequence list, the  *)
(* work list and the started flag as they were.                            *)
C16_SubmitChangesOnlyReport ==
    [][last'.op = "submit_masks" =>
          UNCHANGED <<session_started, sequences, sequences_scribble_idx>>]_vars

\* a submission was refused, and one returned, on a started session
C16_Witness ==
    /\ last.op = "submit_masks"
    /\ last.outcome = "OutOfOrderSubmission"
    /\ session_started
    /\ Len(okRows) > 0

(* C17: close changes none of the sequence list, the work list, the report *)
(* and the started flag, and after it every call of get_starting_scribble, *)
(* submit_masks and get_report ends as it would have ended before it.      *)
C17_CloseIsNoOp ==
    [][last'.op = "close" =>
          /\ UNCHANGED <<session_started, sequences, sequences_scribble_idx,
                         report>>
          /\ \A sequence \in SequenceNames, scribble_idx \in ScribbleIdxs :
                /\ \A loads \in BOOLEAN :
                      GetStartingScribbleOutcome(sequence, scribble_idx, loads)'
                      = GetStartingScribbleOutcome(sequence, scribble_idx, loads)
                /\ \A interaction \in Interactions, fate \in Fates :
                      SubmitOutcome(sequence, scribble_idx, interaction, fate)'
                      = SubmitOutcome(sequence, scribble_idx, interaction, fate)]_vars

\* close was called on a started session whose report holds rows
C17_Witness ==
    /\ last.op = "close"
    /\ session_started
    /\ ReportLen > 0

(* C18: submit_masks on a session on which start never returned ends in    *)
(* InvalidState, the error of get_starting_scribble before start, and      *)
(* leaves the session not started and without a report.                    *)
C18_SubmitBeforeStartIsInvalidState ==
    (last.op = "submit_masks" /\ ~session_started)
    => /\ last.outcome = "InvalidState"
       /\ IsNone(report)

(* C19: while the session is started, every row of the report carries a    *)
(* (sequence, scribble_idx) pair of the work list.                         *)
C19_RowsAreInWorkList ==
    session_started =>
        \A n \in 1..ReportLen :
           <<Val(report)[n].sequence, Val(report)[n].scribble_idx>>
              \in Range(Val(sequences_scribble_idx))

(* C20: a start that raises, on a rejected subset or on the failing file   *)
(* check, leaves the sequence list, the work list, the report and the      *)
(* started flag as they were.                                              *)
C20_RaisingStartChangesNothing ==
    [][last'.op = "start" /\ last'.outcome # "ok" =>
          UNCHANGED <<session_started, sequences, sequences_scribble_idx,
                      report>>]_vars

====
